---- MODULE Spec2Model ----
(***************************************************************************)
(* Model of src/main.py, the support ticket analysis tool: the tickets     *)
(* table of the SQLite store and the three button handlers of the window   *)
(* (upload_file -> load_and_store_data, analyze_data, analyze_with_openai).*)
(*                                                                         *)
(* The handlers run on the single Tk event-loop thread, one at a time, so  *)
(* each handler is one atomic action.  The variables other than `tickets`  *)
(* record what the handler that ran last did: the dialog it showed, the    *)
(* window it opened, the remote call it made, the exception that escaped.  *)
(*                                                                         *)
(* Strings of the source that are not ASCII are written by their English   *)
(* part: the sheet names are the four ticket kinds (hardware, system,      *)
(* service, network tickets) and a spreadsheet header such as              *)
(* "...(Ticket NO)" is written "Ticket NO".                                *)
(***************************************************************************)
EXTENDS Integers, Sequences, FiniteSets

VARIABLES
    tickets,            \* rows of table `tickets`, in id order
    tickets_before,     \* the table as it was when the last handler began
    last_op,            \* the handler that ran last ("main" before any)
    read_excel,         \* per sheet, what pd.read_excel gave the last load
    messagebox,         \* the dialog the last handler showed
    dashboard,          \* the Toplevel the last analyze_data opened
    analysis_window,    \* the Toplevel the last analyze_with_openai opened
    api_calls,          \* remote calls the last handler made
    analysis_response,  \* the text the last analyze_with_openai parsed
    uncaught            \* the exception that escaped the last handler

vars == <<tickets, tickets_before, last_op, read_excel, messagebox, dashboard,
          analysis_window, api_calls, analysis_response, uncaught>>

(***************************************************************************)
(* Bounds of the model.                                                    *)
(***************************************************************************)
\* most rows the table holds (loads that would exceed it are not explored)
MaxTickets == 3
\* most rows of one sheet of a workbook
MaxRows == 1

(***************************************************************************)
(* Cell values.  A cell is NULL (an empty spreadsheet cell, NaN in pandas, *)
(* NULL in SQLite) or a text, kept as the sequence of its words, i.e. of   *)
(* its maximal runs of non-blank characters.                               *)
(***************************************************************************)
NULL == [isnull |-> TRUE, words |-> <<>>]

Text(ws) == [isnull |-> FALSE, words |-> ws]

\* Python's str + str on texts: the characters of a, then those of b.  The
\* code only ever concatenates with the separator " " in between, so the
\* words of the result are the words of a followed by the words of b.
JoinWithSpace(a, b) == Text(a.words \o b.words)

(***************************************************************************)
(* create_database: the schema of table `tickets`.                         *)
(***************************************************************************)
TableColumns ==
    {"id", "ticket_no", "ticket_status", "ticket_type", "project_name",
     "title", "description", "resolve_method", "level", "response_sla",
     "process_duration", "complete_duration", "category"}

\* the list `sheets` of load_and_store_data
sheets == <<"Hardware", "System", "Service", "Network">>

\* the dict `columns_map` of load_and_store_data
columns_map ==
    [h \in {"Ticket NO", "Ticket Status", "Ticket Type", "Project Name",
            "Title", "Description", "Resolve Method", "Level",
            "Response SLA", "Process Duration", "Complete duration"} |->
        CASE h = "Ticket NO"         -> "ticket_no"
          [] h = "Ticket Status"     -> "ticket_status"
          [] h = "Ticket Type"       -> "ticket_type"
          [] h = "Project Name"      -> "project_name"
          [] h = "Title"             -> "title"
          [] h = "Description"       -> "description"
          [] h = "Resolve Method"    -> "resolve_method"
          [] h = "Level"             -> "level"
          [] h = "Response SLA"      -> "response_sla"
          [] h = "Process Duration"  -> "process_duration"
          [] h = "Complete duration" -> "complete_duration"]

(***************************************************************************)
(* Data frames: a set of column names and a sequence of rows, each row a   *)
(* function from the columns to cells.                                     *)
(***************************************************************************)
DataFrame(cols, rows) == [readable |-> TRUE, columns |-> cols, rows |-> rows]

\* a sheet that is absent from the workbook or cannot be parsed:
\* pd.read_excel raises for it
Unreadable == [readable |-> FALSE, columns |-> {}, rows |-> <<>>]

\* lines 79-80: keep the columns whose header is a key of columns_map
SelectAvailable(df) ==
    LET available_cols == {col \in DOMAIN columns_map : col \in df.columns}
    IN  DataFrame(available_cols,
                  [i \in 1..Len(df.rows) |->
                      [c \in available_cols |-> df.rows[i][c]]])

\* line 81: df.rename(columns=columns_map)
Rename(df) ==
    LET renamed(c) == IF c \in DOMAIN columns_map THEN columns_map[c] ELSE c
        source(n)  == CHOOSE c \in df.columns : renamed(c) = n
        new_cols   == {renamed(c) : c \in df.columns}
    IN  DataFrame(new_cols,
                  [i \in 1..Len(df.rows) |->
                      [n \in new_cols |-> df.rows[i][source(n)]]])

\* SetCategory with the bug of labelling every frame with the first sheet
SetCategory_first_sheet(df, sheet_name) ==
    LET new_cols == df.columns \cup {"category"}
    IN  DataFrame(new_cols,
                  [i \in 1..Len(df.rows) |->
                      [n \in new_cols |->
                          IF n = "category" THEN Text(<<sheets[1]>>)
                          ELSE df.rows[i][n]]])

\* line 82: df["category"] = sheet_name
SetCategory(df, sheet_name) ==
    LET new_cols == df.columns \cup {"category"}
    IN  DataFrame(new_cols,
                  [i \in 1..Len(df.rows) |->
                      [n \in new_cols |->
                          IF n = "category" THEN Text(<<sheet_name>>)
                          ELSE df.rows[i][n]]])

\* ProcessSheet with the bug of leaving line 82 out
ProcessSheet_no_category(df, sheet_name) == Rename(SelectAvailable(df))

\* lines 78-83: the body of the try block for one readable sheet
ProcessSheet(df, sheet_name) ==
    SetCategory(Rename(SelectAvailable(df)), sheet_name)

\* lines 75-85: the loop over `sheets`; a sheet whose read raises is skipped
RECURSIVE data_list_upto(_, _)
data_list_upto(file_path, k) ==
    IF k = 0 THEN <<>>
    ELSE LET sheet_name == sheets[k]
             before     == data_list_upto(file_path, k - 1)
         IN  IF file_path[sheet_name].readable
             THEN Append(before, ProcessSheet(file_path[sheet_name], sheet_name))
             ELSE before

\* data_list with the bug of taking a sheet whose read failed for an empty
\* frame
data_list_keep_failed(file_path) ==
    [k \in 1..Len(sheets) |-> ProcessSheet(file_path[sheets[k]], sheets[k])]

data_list(file_path) == data_list_upto(file_path, Len(sheets))

\* line 88: pd.concat(data_list, ignore_index=True): the union of the
\* columns, the rows of the frames in order, NaN where a frame lacks a column
RECURSIVE concat(_)
concat(frames) ==
    IF frames = <<>> THEN DataFrame({}, <<>>)
    ELSE LET k    == Len(frames)
             head == concat(SubSeq(frames, 1, k - 1))
             last == frames[k]
             cols == head.columns \cup last.columns
             fill(df) == [i \in 1..Len(df.rows) |->
                             [c \in cols |->
                                 IF c \in df.columns THEN df.rows[i][c]
                                 ELSE NULL]]
         IN  DataFrame(cols, fill(head) \o fill(last))

\* to_sql with the bug of if_exists="replace"
to_sql_replace(table, all_data) ==
    [i \in 1..Len(all_data.rows) |->
        [c \in TableColumns |->
            IF c = "id" THEN Text(<<i>>)
            ELSE IF c \in all_data.columns THEN all_data.rows[i][c]
            ELSE NULL]]

\* line 90: all_data.to_sql("tickets", conn, if_exists="append"): one INSERT
\* per row of the frame; AUTOINCREMENT numbers the rows, a column of the
\* table the frame lacks is NULL
to_sql(table, all_data) ==
    table \o
    [i \in 1..Len(all_data.rows) |->
        [c \in TableColumns |->
            IF c = "id" THEN Text(<<Len(table) + i>>)
            ELSE IF c \in all_data.columns THEN all_data.rows[i][c]
            ELSE NULL]]

(***************************************************************************)
(* The workbooks a user can pick in the file dialog.                       *)
(***************************************************************************)
\* the headers of a sheet of the export: all the mapped ones this model
\* follows plus one the mapping does not know, or a sheet without the text
\* columns
FullHeaders == {"Ticket NO", "Title", "Description", "Remark"}

PartialHeaders == {"Ticket NO", "Remark"}

HeaderChoices == {FullHeaders, PartialHeaders}

\* a row whose optional cells are empty, and a row with every cell filled
BlankRow(headers) ==
    [h \in headers |-> IF h = "Ticket NO" THEN Text(<<"T1">>) ELSE NULL]

FilledRow(headers) ==
    [h \in headers |->
        CASE h = "Ticket NO"   -> Text(<<"T1">>)
          [] h = "Title"       -> Text(<<"disk", "full">>)
          [] h = "Description" -> Text(<<"the", "disk", "is", "full">>)
          [] h = "Remark"      -> Text(<<"note">>)]

RECURSIVE SeqsUpTo(_, _)
SeqsUpTo(S, n) ==
    IF n = 0 THEN {<<>>}
    ELSE LET shorter == SeqsUpTo(S, n - 1)
         IN  shorter \cup {Append(q, x) : q \in {r \in shorter : Len(r) = n - 1}, x \in S}

\* the rows a sheet is filled from: blank rows in every sheet, filled rows
\* in the first sheet (one sheet with texts is enough for tables with,
\* without and partly with texts, and keeps the number of tables small)
SampleRows(sheet_name, headers) ==
    IF sheet_name = sheets[1]
    THEN {BlankRow(headers), FilledRow(headers)}
    ELSE {BlankRow(headers)}

\* the values of one expected sheet: unreadable, or a frame of up to
\* MaxRows sample rows under the full headers (a sheet of headers alone when
\* it has no rows), or a frame of rows that lack the text columns
SheetValues(sheet_name) ==
    {Unreadable}
    \cup {DataFrame(FullHeaders, rows) :
            rows \in SeqsUpTo(SampleRows(sheet_name, FullHeaders), MaxRows)}
    \cup {DataFrame(PartialHeaders, rows) :
            rows \in SeqsUpTo({BlankRow(PartialHeaders)}, MaxRows) \ {<<>>}}

\* the workbooks whose first k expected sheets hold at most `room` rows,
\* each as the tuple of those sheets
RECURSIVE WorkbookTuples(_, _)
WorkbookTuples(k, room) ==
    IF k = 0 THEN {<<>>}
    ELSE UNION {{Append(w, s) : w \in WorkbookTuples(k - 1, room - Len(s.rows))} :
                   s \in {v \in SheetValues(sheets[k]) : Len(v.rows) <= room}}

SheetNames == {sheets[k] : k \in 1..Len(sheets)}

\* Workbooks[room]: the workbooks of at most `room` rows in all
Workbooks ==
    [room \in 0..MaxTickets |->
        {[name \in SheetNames |-> w[CHOOSE k \in 1..Len(sheets) : sheets[k] = name]] :
            w \in WorkbookTuples(Len(sheets), room)}]

(***************************************************************************)
(* What a handler leaves behind.                                           *)
(***************************************************************************)
NoDialog == [kind |-> "none", title |-> "", message |-> ""]

showinfo(title, message) == [kind |-> "showinfo", title |-> title, message |-> message]

showerror(title, message) == [kind |-> "showerror", title |-> title, message |-> message]

NoWindow == [open |-> FALSE]

NoRead == [name \in SheetNames |-> [readable |-> FALSE, nrows |-> 0]]

NoResponse == <<>>

\* what pd.read_excel gave for each expected sheet of the workbook
ReadOutcome(file_path) ==
    [name \in SheetNames |->
        [readable |-> file_path[name].readable,
         nrows    |-> Len(file_path[name].rows)]]

(***************************************************************************)
(* load_and_store_data, lines 55-94.                                       *)
(***************************************************************************)
load_and_store_data(file_path) ==
    /\ read_excel' = ReadOutcome(file_path)
    /\ LET frames == data_list(file_path)
       IN  IF frames # <<>>
           THEN /\ tickets' = to_sql(tickets, concat(frames))
                /\ messagebox' = showinfo("Success", "Data loaded and stored successfully!")
           ELSE /\ tickets' = tickets
                /\ messagebox' = showerror("Error", "No data loaded from file.")
    /\ dashboard' = NoWindow
    /\ analysis_window' = NoWindow
    /\ api_calls' = 0
    /\ analysis_response' = NoResponse
    /\ uncaught' = "none"

\* upload_file, lines 265-268: the file dialog, then the load.  (A cancelled
\* dialog returns an empty path and the handler does nothing.)
upload_file ==
    \E file_path \in Workbooks[MaxTickets - Len(tickets)] :
        /\ last_op' = "upload_file"
        /\ tickets_before' = tickets
        /\ load_and_store_data(file_path)

(***************************************************************************)
(* analyze_data, lines 96-164.                                             *)
(***************************************************************************)
\* empty with the bug of a check that never fires
empty_never(df) == FALSE

\* DataFrame.empty, lines 107 and 177
empty(df) == df = <<>>

\* Series.value_counts() on a column of cells: the number of occurrences of
\* each value that is not null (dropna is the default)
value_counts(series) ==
    [v \in {c \in {series[i] : i \in 1..Len(series)} : ~c.isnull} |->
        Cardinality({i \in 1..Len(series) : series[i] = v})]

\* Series.value_counts() on the integer column 'Cluster' (which has no null)
label_counts(labels) ==
    [v \in {labels[i] : i \in 1..Len(labels)} |->
        Cardinality({i \in 1..Len(labels) : labels[i] = v})]

column(df, name) == [i \in 1..Len(df) |-> df[i][name]]

\* Series.fillna('')
fillna(cell) == IF cell.isnull THEN Text(<<>>) ELSE cell

\* line 124: title.fillna('') + " " + description.fillna('')
combined_text(df) ==
    [i \in 1..Len(df) |->
        JoinWithSpace(fillna(df[i]["title"]), fillna(df[i]["description"]))]

\* the words of sklearn's English stop word list that the texts of this
\* model use
ENGLISH_STOP_WORDS == {"the", "is"}

\* the analyzer of TfidfVectorizer(stop_words='english'): the words of two
\* or more word characters (every word of this model's texts is one) that
\* are no stop words
analyze(doc) ==
    SelectSeq(doc.words, LAMBDA w : w \notin ENGLISH_STOP_WORDS)

vocabulary(terms) ==
    UNION {{terms[i][j] : j \in 1..Len(terms[i])} : i \in 1..Len(terms)}

\* TfidfVectorizer.fit_transform: raises ValueError("empty vocabulary ...")
\* when no document holds a term; otherwise one row per document, given
\* here by the term counts that determine its weights
fit_transform(docs) ==
    LET terms == [i \in 1..Len(docs) |-> analyze(docs[i])]
        vocab == vocabulary(terms)
    IN  IF vocab = {}
        THEN [raised |-> TRUE, X |-> <<>>]
        ELSE [raised |-> FALSE,
              X |-> [i \in 1..Len(docs) |->
                        [t \in vocab |->
                            Cardinality({j \in 1..Len(terms[i]) : terms[i][j] = t})]]]

\* KMeans(n_clusters=3, ...), line 132
n_clusters == 3

\* KMeans.fit_predict raises ValueError when there are fewer samples than
\* clusters ("n_samples=.. should be >= n_clusters=3")
kmeans_raises(X) == Len(X) < n_clusters

\* otherwise it labels every sample with the index of its nearest centre:
\* some labelling in which equal samples have equal labels
Labellings(X) ==
    [{X[i] : i \in 1..Len(X)} -> 0..(n_clusters - 1)]

\* clustering_attempted with the bug of going on after the vectorizer raised
clustering_attempted_after_raise(vectorized) == TRUE

\* lines 126-131: X is None when the vectorizer raised, and the clustering
\* runs when X is not None and has rows
clustering_attempted(vectorized) ==
    ~vectorized.raised /\ Len(vectorized.X) > 0

NoAxes == [kind |-> "empty", bars |-> <<>>, text |-> ""]

BarChart(counts) == [kind |-> "bars", bars |-> counts, text |-> ""]

AxesText(text) == [kind |-> "text", bars |-> <<>>, text |-> text]

NoSummary ==
    [written |-> FALSE, total_tickets |-> 0, tickets_per_category |-> <<>>,
     cluster_lines |-> <<>>, not_performed_line |-> FALSE]

\* the window as it is when KMeans raises at line 133: created and titled
\* (lines 114-115), nothing packed into it
DashboardAtKMeansError ==
    [open |-> TRUE, title |-> "Dashboard - Local Analysis", canvas |-> FALSE,
     category_axes |-> NoAxes, cluster_axes |-> NoAxes, summary |-> NoSummary]

\* the window at the end of the handler (lines 114-164); cluster_counts is
\* <<>> when column 'Cluster' was not added
Dashboard(df, clustered, cluster_counts) ==
    [open |-> TRUE, title |-> "Dashboard - Local Analysis", canvas |-> TRUE,
     category_axes |-> BarChart(value_counts(column(df, "category"))),
     cluster_axes |->
        IF clustered THEN BarChart(cluster_counts)
        ELSE AxesText("Not enough text data for clustering"),
     summary |->
        [written |-> TRUE,
         total_tickets |-> Len(df),
         tickets_per_category |-> value_counts(column(df, "category")),
         cluster_lines |-> IF clustered THEN cluster_counts ELSE <<>>,
         not_performed_line |-> ~clustered]]

analyze_data ==
    /\ last_op' = "analyze_data"
    /\ tickets_before' = tickets
    /\ UNCHANGED tickets
    /\ read_excel' = NoRead
    /\ analysis_window' = NoWindow
    /\ api_calls' = 0
    /\ analysis_response' = NoResponse
    /\ IF empty(tickets)
       THEN /\ messagebox' = showerror("Error", "No data available for analysis.")
            /\ dashboard' = NoWindow
            /\ uncaught' = "none"
       ELSE /\ messagebox' = NoDialog
            /\ LET vectorized == fit_transform(combined_text(tickets))
                    X == vectorized.X
               IN  IF clustering_attempted(vectorized)
                   THEN IF kmeans_raises(X)
                        THEN /\ dashboard' = DashboardAtKMeansError
                             /\ uncaught' = "ValueError"
                        ELSE \E label_of \in Labellings(X) :
                                /\ dashboard' =
                                     Dashboard(tickets, TRUE,
                                         label_counts([i \in 1..Len(X) |-> label_of[X[i]]]))
                                /\ uncaught' = "none"
                   ELSE /\ dashboard' = Dashboard(tickets, FALSE, <<>>)
                        /\ uncaught' = "none"

(***************************************************************************)
(* Texts of the remote exchange.  A text is the sequence of its lexemes:   *)
(* a punctuation character of JSON, a number, a string literal (with the   *)
(* text between its quotes), or any other run of characters (a word).      *)
(***************************************************************************)
P(c) == [t |-> "punct", c |-> c]

N(n) == [t |-> "number", n |-> n]

S(text) == [t |-> "string", s |-> text]

W(w) == [t |-> "word", w |-> w]

IsPunct(tok, c) == tok.t = "punct" /\ tok.c = c

\* Python values
PyNone == [type |-> "NoneType"]

PyInt(n) == [type |-> "int", n |-> n]

PyStr(text) == [type |-> "str", text |-> text]

PyList(elems) == [type |-> "list", elems |-> elems]

PyDict(items) == [type |-> "dict", items |-> items]

\* d[key] = value
setitem(items, key, value) ==
    [k \in DOMAIN items \cup {key} |-> IF k = key THEN value ELSE items[k]]

\* dict.get(key, default)
get(d, key, default) == IF key \in DOMAIN d.items THEN d.items[key] ELSE default

\* bool(value), as `if categories:` takes it
truthy(value) ==
    CASE value.type = "NoneType" -> FALSE
      [] value.type = "int"      -> value.n # 0
      [] value.type = "str"      -> value.text # <<>>
      [] value.type = "list"     -> value.elems # <<>>
      [] value.type = "dict"     -> DOMAIN value.items # {}

\* json.loads: a recursive-descent parse of one JSON value from lexeme i
ParseError == [ok |-> FALSE, value |-> PyNone, next |-> 0]

Parsed(value, next) == [ok |-> TRUE, value |-> value, next |-> next]

RECURSIVE parse_value(_, _), parse_members(_, _, _), parse_elements(_, _, _)
parse_value(text, i) ==
    IF i > Len(text) THEN ParseError
    ELSE LET tok == text[i]
         IN  CASE tok.t = "string" -> Parsed(PyStr(tok.s), i + 1)
               [] tok.t = "number" -> Parsed(PyInt(tok.n), i + 1)
               [] tok.t = "word"   ->
                    IF tok.w = "null" THEN Parsed(PyNone, i + 1) ELSE ParseError
               [] tok.t = "punct"  ->
                    IF tok.c = "{"
                    THEN IF i + 1 <= Len(text) /\ IsPunct(text[i + 1], "}")
                         THEN Parsed(PyDict(<<>>), i + 2)
                         ELSE parse_members(text, i + 1, <<>>)
                    ELSE IF tok.c = "["
                    THEN IF i + 1 <= Len(text) /\ IsPunct(text[i + 1], "]")
                         THEN Parsed(PyList(<<>>), i + 2)
                         ELSE parse_elements(text, i + 1, <<>>)
                    ELSE ParseError

\* the members of an object from lexeme i on: "key" : value, then , or }
\* (a key given twice keeps its last value)
parse_members(text, i, items) ==
    IF i + 1 > Len(text) \/ text[i].t # "string" \/ ~IsPunct(text[i + 1], ":")
    THEN ParseError
    ELSE LET v == parse_value(text, i + 2)
         IN  IF ~v.ok \/ v.next > Len(text) THEN ParseError
             ELSE IF IsPunct(text[v.next], "}")
             THEN Parsed(PyDict(setitem(items, text[i].s, v.value)), v.next + 1)
             ELSE IF IsPunct(text[v.next], ",")
             THEN parse_members(text, v.next + 1, setitem(items, text[i].s, v.value))
             ELSE ParseError

\* the elements of an array from lexeme i on: value, then , or ]
parse_elements(text, i, elems) ==
    LET v == parse_value(text, i)
    IN  IF ~v.ok \/ v.next > Len(text) THEN ParseError
        ELSE IF IsPunct(text[v.next], "]")
        THEN Parsed(PyList(Append(elems, v.value)), v.next + 1)
        ELSE IF IsPunct(text[v.next], ",")
        THEN parse_elements(text, v.next + 1, Append(elems, v.value))
        ELSE ParseError

\* json.loads(text): raises (JSONDecodeError) unless the whole text is one
\* JSON value
json_loads(text) ==
    LET r == parse_value(text, 1)
    IN  IF r.ok /\ r.next = Len(text) + 1
        THEN [raised |-> FALSE, value |-> r.value]
        ELSE [raised |-> TRUE, value |-> PyNone]

\* the JSON text of a Python value, as a model that follows its
\* instructions writes it
RECURSIVE json_dumps(_)
json_dumps(value) ==
    CASE value.type = "NoneType" -> <<W("null")>>
      [] value.type = "int"      -> <<N(value.n)>>
      [] value.type = "str"      -> <<S(value.text)>>
      [] value.type = "list"     ->
            IF value.elems = <<>> THEN <<P("["), P("]")>>
            ELSE LET k == Len(value.elems)
                     front == json_dumps(PyList(SubSeq(value.elems, 1, k - 1)))
                 IN  IF k = 1
                     THEN <<P("[")>> \o json_dumps(value.elems[1]) \o <<P("]")>>
                     ELSE SubSeq(front, 1, Len(front) - 1) \o <<P(",")>>
                          \o json_dumps(value.elems[k]) \o <<P("]")>>
      [] value.type = "dict"     ->
            IF DOMAIN value.items = {} THEN <<P("{"), P("}")>>
            ELSE LET key   == CHOOSE k \in DOMAIN value.items : TRUE
                     rest  == [k \in DOMAIN value.items \ {key} |-> value.items[k]]
                     tail  == json_dumps(PyDict(rest))
                     member == <<S(key), P(":")>> \o json_dumps(value.items[key])
                 IN  IF DOMAIN rest = {}
                     THEN <<P("{")>> \o member \o <<P("}")>>
                     ELSE <<P("{")>> \o member \o <<P(",")>> \o Tail(tail)

(***************************************************************************)
(* analyze_with_openai, lines 166-255.                                     *)
(***************************************************************************)
\* the text of one word
K(w) == <<W(w)>>

\* the replies of the remote model that have the shape the prompt asks for
\* (the first one is {"categories": {"Network": 3, "Hardware": 2},
\* "summary": "fix cables"})
CategoryMappings ==
    {setitem(setitem(<<>>, K("Network"), PyInt(3)), K("Hardware"), PyInt(2)),
     setitem(<<>>, K("Network"), PyInt(1))}

Summaries == {<<W("fix"), W("cables")>>, <<>>}

Answer(mapping, summary) ==
    PyDict(setitem(setitem(<<>>, K("categories"), PyDict(mapping)),
                   K("summary"), PyStr(summary)))

WellFormedReplies ==
    {json_dumps(Answer(m, t)) : m \in CategoryMappings, t \in Summaries}

SampleReply == json_dumps(Answer(setitem(<<>>, K("Network"), PyInt(1)), K("ok")))

\* other texts a chat model returns: prose, prose after the JSON, a reply
\* cut off by max_tokens, JSON of another shape
OtherReplies ==
    {<<W("Sorry,"), W("I"), W("cannot"), W("help")>>,
     SampleReply \o <<W("Hope"), W("this"), W("helps")>>,
     SubSeq(SampleReply, 1, Len(SampleReply) - 2),
     json_dumps(PyList(<<PyInt(3), PyInt(2)>>)),
     json_dumps(PyDict(<<>>)),
     json_dumps(PyDict(setitem(<<>>, K("categories"), PyNone))),
     json_dumps(PyDict(setitem(<<>>, K("categories"), PyList(<<PyStr(K("Network"))>>))))}

\* the str() of the exceptions the call raises
ApiErrors == {<<W("Rate"), W("limit"), W("reached")>>, <<W("Connection"), W("error")>>}

\* lines 209-218: the call returns a reply, or raises and the handler makes
\* the text of the error its response
ChatCompletionOutcomes ==
    {[raised |-> FALSE, text |-> r] : r \in WellFormedReplies \cup OtherReplies}
    \cup {[raised |-> TRUE, text |-> e] : e \in ApiErrors}

response_text(outcome) ==
    IF outcome.raised
    THEN <<W("Error"), W("in"), W("OpenAI"), W("API"), W("call:")>> \o outcome.text
    ELSE outcome.text

\* parse_response with the bug of the default summary in the except branch
parse_response_default_summary(response) ==
    LET loaded == json_loads(response)
        default == PyStr(<<W("No"), W("summary"), W("provided.")>>)
    IN  IF ~loaded.raised /\ loaded.value.type = "dict"
        THEN [categories |-> get(loaded.value, K("categories"), PyDict(<<>>)),
              summary    |-> get(loaded.value, K("summary"), default)]
        ELSE [categories |-> PyDict(<<>>), summary |-> default]

\* parse_response with the bug of reading the key "category"
parse_response_wrong_key(response) ==
    LET loaded == json_loads(response)
    IN  IF ~loaded.raised /\ loaded.value.type = "dict"
        THEN [categories |-> get(loaded.value, K("category"), PyDict(<<>>)),
              summary    |-> get(loaded.value, K("summary"),
                                 PyStr(<<W("No"), W("summary"), W("provided.")>>))]
        ELSE [categories |-> PyDict(<<>>), summary |-> PyStr(response)]

\* lines 221-227: json.loads raises on a text that is no JSON, and .get
\* raises AttributeError on a value that is no dict; both end in the except
\* branch
parse_response(response) ==
    LET loaded == json_loads(response)
    IN  IF ~loaded.raised /\ loaded.value.type = "dict"
        THEN [categories |-> get(loaded.value, K("categories"), PyDict(<<>>)),
              summary    |-> get(loaded.value, K("summary"),
                                 PyStr(<<W("No"), W("summary"), W("provided.")>>))]
        ELSE [categories |-> PyDict(<<>>), summary |-> PyStr(response)]

\* the window as it is when categories.keys() raises at line 235: created
\* and titled (lines 230-231), nothing packed into it
WindowAtKeysError ==
    [open |-> TRUE, title |-> "OpenAI Analysis Result", chart |-> NoAxes,
     label |-> "", summary_label |-> "", inserted |-> FALSE, result_text |-> PyNone]

\* the window at the end of the handler (lines 230-255)
AnalysisWindow(categories, summary) ==
    [open |-> TRUE, title |-> "OpenAI Analysis Result",
     chart |-> IF truthy(categories) THEN BarChart(categories.items) ELSE NoAxes,
     label |-> IF truthy(categories) THEN ""
               ELSE "No valid category data returned from OpenAI.",
     summary_label |-> "OpenAI Analysis Summary:",
     inserted |-> TRUE,
     result_text |-> summary]

\* lines 209-255 for one outcome of the call: the response text, the window
\* and the exception that escapes
openai_result(outcome) ==
    LET response == response_text(outcome)
        parsed   == parse_response(response)
        keys_raises == truthy(parsed.categories) /\ parsed.categories.type # "dict"
    IN  [analysis_response |-> response,
         analysis_window |->
            IF keys_raises THEN WindowAtKeysError
            ELSE AnalysisWindow(parsed.categories, parsed.summary),
         uncaught |-> IF keys_raises THEN "AttributeError" ELSE "none"]

OpenAIResults == {openai_result(outcome) : outcome \in ChatCompletionOutcomes}

analyze_with_openai ==
    /\ last_op' = "analyze_with_openai"
    /\ tickets_before' = tickets
    /\ UNCHANGED tickets
    /\ read_excel' = NoRead
    /\ dashboard' = NoWindow
    /\ IF empty(tickets)
       THEN /\ messagebox' = showerror("Error", "No data available for OpenAI analysis.")
            /\ analysis_window' = NoWindow
            /\ api_calls' = 0
            /\ analysis_response' = NoResponse
            /\ uncaught' = "none"
       ELSE \E result \in OpenAIResults :
              /\ messagebox' = NoDialog
              /\ api_calls' = 1
              /\ analysis_response' = result.analysis_response
              /\ analysis_window' = result.analysis_window
              /\ uncaught' = result.uncaught

\* main, lines 257-282: create_database, then the window with its buttons.
\* The table is empty on the first run; a later run starts from a table that
\* earlier loads have filled, which is a table this model reaches by loads.
Init ==
    /\ tickets = <<>>
    /\ tickets_before = <<>>
    /\ last_op = "main"
    /\ read_excel = NoRead
    /\ messagebox = NoDialog
    /\ dashboard = NoWindow
    /\ analysis_window = NoWindow
    /\ api_calls = 0
    /\ analysis_response = NoResponse
    /\ uncaught = "none"

Next == upload_file \/ analyze_data \/ analyze_with_openai

Spec == Init /\ [][Next]_vars

(***************************************************************************)
(* Properties.                                                             *)
(***************************************************************************)
RECURSIVE SumOf(_)
SumOf(f) ==
    IF DOMAIN f = {} THEN 0
    ELSE LET k == CHOOSE x \in DOMAIN f : TRUE
         IN  f[k] + SumOf([x \in DOMAIN f \ {k} |-> f[x]])

IsPrefix(p, q) == Len(p) <= Len(q) /\ SubSeq(q, 1, Len(p)) = p

LoadRan == last_op = "upload_file"

ReadableSheets == {name \in SheetNames : read_excel[name].readable}

\* the rows the last load read from the readable sheets
RowsRead == SumOf([name \in ReadableSheets |-> read_excel[name].nrows])

\* the positions of the rows the last handler appended
Appended == (Len(tickets_before) + 1)..Len(tickets)

\* C1: a load of a workbook with at least one readable expected sheet shows
\* the success dialog and appends exactly the rows of the readable sheets:
\* the row count grows by the sum of their row counts, and for every sheet
\* the appended rows of its category are as many as the rows read from it
\* (none for an unreadable sheet).
C1_LoadStoresReadableSheets ==
    (LoadRan /\ ReadableSheets # {}) =>
        /\ messagebox = showinfo("Success", "Data loaded and stored successfully!")
        /\ Len(tickets) = Len(tickets_before) + RowsRead
        /\ \A i \in Appended : ~tickets[i]["category"].isnull
        /\ \A name \in SheetNames :
              Cardinality({i \in Appended : tickets[i]["category"] = Text(<<name>>)})
                = IF name \in ReadableSheets THEN read_excel[name].nrows ELSE 0

\* a load onto a table with rows, of a workbook with an unreadable sheet, a
\* sheet without rows and two sheets with rows
C1_Witness ==
    /\ LoadRan
    /\ tickets_before # <<>>
    /\ \E name \in SheetNames : ~read_excel[name].readable
    /\ \E name \in ReadableSheets : read_excel[name].nrows = 0
    /\ Cardinality({name \in ReadableSheets : read_excel[name].nrows > 0}) >= 2

\* C2: a load of a workbook none of whose expected sheets can be read shows
\* the error dialog, not the success dialog, and leaves the table as it was.
C2_NoReadableSheetFails ==
    (LoadRan /\ ReadableSheets = {}) =>
        /\ messagebox = showerror("Error", "No data loaded from file.")
        /\ tickets = tickets_before

C2_Witness == LoadRan /\ ReadableSheets = {} /\ tickets_before # <<>>

\* C3: every load that ends with the success dialog has appended at least
\* one row.
C3_SuccessMeansRowsAppended ==
    (LoadRan /\ messagebox.kind = "showinfo") => Len(tickets) > Len(tickets_before)

\* C4: the table is append-only: every step keeps the rows it finds, in
\* place and unchanged; the analysis handlers leave the table as it is; only
\* a load changes it.
C4_AppendOnly ==
    [][/\ IsPrefix(tickets, tickets')
       /\ last_op' \in {"analyze_data", "analyze_with_openai"} => tickets' = tickets
       /\ tickets' # tickets => last_op' = "upload_file"]_vars

\* the same row stored twice (alike in every column but id), after a load
\* onto a table with rows and then an analysis
C4_Witness ==
    /\ last_op = "analyze_data"
    /\ \E i, j \in 1..Len(tickets) :
          /\ i < j
          /\ \A c \in TableColumns \ {"id"} : tickets[i][c] = tickets[j][c]

AnalysisRan == last_op \in {"analyze_data", "analyze_with_openai"}

\* C5: an analysis handler that finds the table empty shows an error dialog,
\* opens no window, makes no remote call and leaves the table unchanged.
C5_EmptyTableShortCircuits ==
    (AnalysisRan /\ tickets_before = <<>>) =>
        /\ messagebox.kind = "showerror"
        /\ ~dashboard.open
        /\ ~analysis_window.open
        /\ api_calls = 0
        /\ uncaught = "none"
        /\ tickets = tickets_before

C5_Witness == last_op = "analyze_with_openai" /\ tickets_before = <<>>

\* C6: the per-category counts of a dashboard sum to the number of stored
\* rows, which is the total the summary gives.
C6_CategoryCountsSumToTotal ==
    (last_op = "analyze_data" /\ tickets # <<>> /\ dashboard.summary.written) =>
        /\ dashboard.summary.total_tickets = Len(tickets)
        /\ SumOf(dashboard.summary.tickets_per_category) = Len(tickets)
        /\ dashboard.category_axes.bars = dashboard.summary.tickets_per_category

\* a dashboard over three rows of at least two categories
C6_Witness ==
    /\ last_op = "analyze_data"
    /\ dashboard.open
    /\ dashboard.summary.written
    /\ Len(tickets) = 3
    /\ Cardinality(DOMAIN dashboard.summary.tickets_per_category) >= 2

NoText(cell) == cell.isnull \/ cell.words = <<>>

AllTextsEmpty ==
    \A i \in 1..Len(tickets) :
        NoText(tickets[i]["title"]) /\ NoText(tickets[i]["description"])

\* C7: analyze_data on a table with rows whose titles and descriptions are
\* all empty or null raises nothing, skips the clustering and still shows
\* the dashboard with the category counts and a summary that says the
\* clustering was not performed.
C7_EmptyTextsSkipClustering ==
    (last_op = "analyze_data" /\ tickets # <<>> /\ AllTextsEmpty) =>
        /\ uncaught = "none"
        /\ dashboard.open
        /\ dashboard.canvas
        /\ dashboard.category_axes.kind = "bars"
        /\ SumOf(dashboard.category_axes.bars) = Len(tickets)
        /\ dashboard.cluster_axes.kind = "text"
        /\ dashboard.summary.written
        /\ dashboard.summary.not_performed_line
        /\ dashboard.summary.cluster_lines = <<>>

C7_Witness ==
    last_op = "analyze_data" /\ Len(tickets) >= 2 /\ AllTextsEmpty

OpenAIRan == last_op = "analyze_with_openai" /\ api_calls = 1

CallFailed ==
    \E e \in ApiErrors :
        analysis_response = response_text([raised |-> TRUE, text |-> e])

\* C8: when the remote call fails or its reply is no JSON, the handler
\* raises nothing, draws no chart (the category mapping is empty) and puts
\* the whole response text, as it is, into the summary pane.
C8_UnparsableReplyShownVerbatim ==
    (OpenAIRan /\ (CallFailed \/ json_loads(analysis_response).raised)) =>
        /\ uncaught = "none"
        /\ analysis_window.open
        /\ analysis_window.chart.kind = "empty"
        /\ analysis_window.label = "No valid category data returned from OpenAI."
        /\ analysis_window.inserted
        /\ analysis_window.result_text = PyStr(analysis_response)

\* a reply cut off in the middle of its JSON
C8_Witness ==
    /\ OpenAIRan
    /\ ~CallFailed
    /\ json_loads(analysis_response).raised
    /\ Len(analysis_response) > 0
    /\ IsPunct(analysis_response[1], "{")

\* C9: for a reply that is the JSON of a non-empty mapping from category
\* names to counts and of a summary string, the chart has one bar per name
\* of the mapping, as high as its count, and the summary pane shows the
\* summary string.
C9_WellFormedReplyRendered ==
    \A m \in CategoryMappings, t \in Summaries :
        (OpenAIRan /\ analysis_response = json_dumps(Answer(m, t))) =>
            /\ uncaught = "none"
            /\ analysis_window.open
            /\ analysis_window.chart.kind = "bars"
            /\ DOMAIN analysis_window.chart.bars = DOMAIN m
            /\ \A name \in DOMAIN m : analysis_window.chart.bars[name] = m[name]
            /\ analysis_window.inserted
            /\ analysis_window.result_text = PyStr(t)

\* the reply {"categories": {"Network": 3, "Hardware": 2}, "summary": "fix cables"}
C9_Witness ==
    /\ OpenAIRan
    /\ \E m \in CategoryMappings :
          /\ Cardinality(DOMAIN m) = 2
          /\ analysis_response = json_dumps(Answer(m, <<W("fix"), W("cables")>>))

\* C10: analyze_data on any table with rows on which the vectorizer succeeds
\* raises nothing and reports cluster counts that sum to the number of rows.
C10_ClusteringCompletes ==
    (/\ last_op = "analyze_data"
     /\ tickets # <<>>
     /\ ~fit_transform(combined_text(tickets)).raised) =>
        /\ uncaught = "none"
        /\ dashboard.cluster_axes.kind = "bars"
        /\ SumOf(dashboard.summary.cluster_lines) = Len(tickets)
====
